---------------------------- MODULE Spec2Model ----------------------------
(***************************************************************************)
(* Model of hybrid_reimbursement.py: the HybridReimbursementCalculator     *)
(* (training store, its two lookup tables, six estimators, the ensemble)   *)
(* and calculate_reimbursement with its fallback chain.                    *)
(*                                                                         *)
(* Numbers.  Python floats are modelled as exact rationals.                *)
(*   - days are integers;                                                  *)
(*   - miles and receipts are counted in tenths of a unit (100.4 is 1004); *)
(*   - money is counted in cents; a computed amount is a mixed number      *)
(*     [w, n, d] standing for w + n/d cents with 0 <= n < d, gcd(n,d) = 1. *)
(* Raw arguments of calculate_reimbursement are text or numbers: a raw     *)
(* argument is [numeric, tenths], numeric = FALSE for text float() rejects.*)
(* In the dataset file a field may be JSON null (Null) or its key may be   *)
(* missing (Absent).                                                       *)
(***************************************************************************)
EXTENDS Integers, Sequences, FiniteSets, TLC

VARIABLES
    file,              \* public_cases.json as found on disk: [state, cases]
    phase,             \* "start", "ready" (calculator constructed), "crashed"
    training_data,     \* self.training_data
    day_patterns,      \* self.day_patterns
    receipt_patterns,  \* self.receipt_patterns
    args,              \* raw arguments of the last calculate_reimbursement call
    ret,               \* what that call returned: [stage, val]
    votes,             \* predictions/weights lists of the last predict()
    first              \* an observer's note of the first call made and
                       \* what it returned: [state, args, ret, separated],
                       \* state "off" (no note is taken), "waiting" or
                       \* "noted"; separated once a call with other
                       \* arguments has followed it

vars == <<file, phase, training_data, day_patterns, receipt_patterns,
          args, ret, votes, first>>

store == <<training_data, day_patterns, receipt_patterns>>

---------------------------------------------------------------------------
(* Exact arithmetic on mixed numbers of cents.                             *)

Abs(x) == IF x < 0 THEN -x ELSE x

RECURSIVE Gcd(_, _)
Gcd(a, b) == IF b = 0 THEN a ELSE Gcd(b, a % b)

Lcm(a, b) == (a \div Gcd(a, b)) * b

\* w + n/d, normalised (d > 0; \div and % round towards minus infinity)
Norm(w, n, d) ==
    LET r == n % d
        g == Gcd(r, d)
    IN  [w |-> w + (n \div d), n |-> r \div g, d |-> d \div g]

Whole(c) == [w |-> c, n |-> 0, d |-> 1]

Add(a, b) ==
    LET l == Lcm(a.d, b.d)
    IN  Norm(a.w + b.w, a.n * (l \div a.d) + b.n * (l \div b.d), l)

\* a * k for an integer k >= 0
Times(a, k) == Norm(a.w * k, a.n * k, a.d)

Less(a, b) == a.w < b.w \/ (a.w = b.w /\ a.n * b.d < b.n * a.d)

RECURSIVE SumVals(_)
SumVals(s) == IF s = <<>> THEN Whole(0) ELSE Add(Head(s), SumVals(Tail(s)))

RECURSIVE SumInts(_)
SumInts(s) == IF s = <<>> THEN 0 ELSE Head(s) + SumInts(Tail(s))

\* (the sum of total) / k for integers: sum(...) / len(...)
Mean(total, k) == Norm(0, total, k)

\* a / k for an integer k > 0
DivInt(a, k) == Norm(a.w \div k, (a.w % k) * a.d + a.n, a.d * k)

Min(a, b) == IF a < b THEN a ELSE b

---------------------------------------------------------------------------
(* Optional results: a value, Python's None, or an exception raised.       *)

None == [kind |-> "none", val |-> Whole(0)]
Raised == [kind |-> "raised", val |-> Whole(0)]
Some(v) == [kind |-> "value", val |-> v]

\* JSON null in a field of the dataset; a key that the record does not have
Null == -1
Absent == -2

\* a quantity of whole units, in the tenths miles and receipts are counted in
Units(x) == x * 10

\* a case's output is read as a number of cents
RECURSIVE Outputs(_)
Outputs(cases) ==
    IF cases = <<>> THEN 0 ELSE Head(cases).output + Outputs(Tail(cases))

---------------------------------------------------------------------------
(* HybridReimbursementCalculator.__init__                                  *)

\* for case in cases: self.training_data.append({...}); a record lacking a
\* key raises KeyError after the records before it were appended
RECURSIVE AppendCases(_, _)
AppendCases(cases, acc) ==
    IF cases = <<>> THEN [raised |-> FALSE, data |-> acc]
    ELSE LET case == Head(cases) IN
         IF Absent \in {case.days, case.miles, case.receipts, case.output}
         THEN [raised |-> TRUE, data |-> acc]
         ELSE AppendCases(Tail(cases), Append(acc, case))

\* open() and json.load() inside try ... except FileNotFoundError: pass
load_training_data(f) ==
    CASE f.state = "absent"     -> [raised |-> FALSE, data |-> <<>>]
      [] f.state = "unreadable" -> [raised |-> TRUE, data |-> <<>>]
      [] f.state = "malformed"  -> [raised |-> TRUE, data |-> <<>>]
      [] OTHER                  -> AppendCases(f.cases, <<>>)

receipt_buckets ==
    << <<0, 50>>, <<50, 100>>, <<100, 200>>, <<200, 300>>, <<300, 500>>,
       <<500, 800>>, <<800, 1200>>, <<1200, 1600>>, <<1600, 2000>>,
       <<2000, 3000>> >>

\* a faulty variant: the upper edge of a range taken as inside it
InBucketClosed(b, receipts) ==
    Units(b[1]) <= receipts /\ receipts <= Units(b[2])

InBucket(b, receipts) == Units(b[1]) <= receipts /\ receipts < Units(b[2])

\* self.day_patterns: days -> the cases of that duration, in load order
build_day_patterns(td) ==
    [d \in {td[i].days : i \in 1..Len(td)} |->
        SelectSeq(td, LAMBDA c : c.days = d)]

\* self.receipt_patterns: (low, high) -> the cases in that range; the method
\* returns before filling either table when training_data is empty
build_receipt_patterns(td) ==
    IF td = <<>> THEN <<>>
    ELSE [b \in {receipt_buckets[i] : i \in 1..Len(receipt_buckets)} |->
            SelectSeq(td, LAMBDA c : InBucket(b, c.receipts))]

---------------------------------------------------------------------------
(* The estimators.  case['miles'] - miles raises TypeError when the case's *)
(* miles is None; `and` evaluates its operands left to right and stops at  *)
(* the first false one.                                                    *)

ExactTolerance == 1
EnsembleTolerance == 20
TopK == 5
BucketDayRange == 2
BucketMileRange == 100

\* a faulty variant: the scan goes on to the last match
RECURSIVE find_last_match(_, _, _, _)
find_last_match(td, days, miles, receipts) ==
    IF td = <<>> THEN None
    ELSE LET case == Head(td)
             rest == find_last_match(Tail(td), days, miles, receipts)
         IN  IF case.days # days THEN rest
             ELSE IF case.miles = Null THEN Raised
             ELSE IF /\ Abs(case.miles - miles) <= Units(ExactTolerance)
                     /\ Abs(case.receipts - receipts) <= Units(ExactTolerance)
                     /\ rest = None
                  THEN Some(Whole(case.output))
                  ELSE rest

RECURSIVE find_exact_match(_, _, _, _)
find_exact_match(td, days, miles, receipts) ==
    IF td = <<>> THEN None
    ELSE LET case == Head(td) IN
         IF case.days # days
         THEN find_exact_match(Tail(td), days, miles, receipts)
         ELSE IF case.miles = Null THEN Raised
         ELSE IF /\ Abs(case.miles - miles) <= Units(ExactTolerance)
                 /\ Abs(case.receipts - receipts) <= Units(ExactTolerance)
              THEN Some(Whole(case.output))
              ELSE find_exact_match(Tail(td), days, miles, receipts)

find_similar_cases(td, days, miles, receipts, tolerance) ==
    IF \E i \in 1..Len(td) :
          Abs(td[i].days - days) <= 1 /\ td[i].miles = Null
    THEN Raised
    ELSE LET similar == SelectSeq(td, LAMBDA case :
                 /\ Abs(case.days - days) <= 1
                 /\ Abs(case.miles - miles) <= Units(tolerance)
                 /\ Abs(case.receipts - receipts) <= Units(tolerance))
         IN  IF similar # <<>>
             THEN Some(Mean(Outputs(similar), Len(similar)))
             ELSE None

\* score = mile_diff / 100.0 + receipt_diff / 100.0, counted in thousandths
Score(case, miles, receipts) ==
    Abs(case.miles - miles) + Abs(case.receipts - receipts)

\* a faulty variant: an unstable sort, equal scores in reverse load order
RECURSIVE InsertBeforeEqual(_, _)
InsertBeforeEqual(sorted, cand) ==
    IF sorted = <<>> THEN <<cand>>
    ELSE IF cand.score <= Head(sorted).score
         THEN <<cand>> \o sorted
         ELSE <<Head(sorted)>> \o InsertBeforeEqual(Tail(sorted), cand)

\* candidates.sort(key=lambda x: x[0]): a stable sort, by insertion
RECURSIVE InsertByScore(_, _)
InsertByScore(sorted, cand) ==
    IF sorted = <<>> THEN <<cand>>
    ELSE IF cand.score < Head(sorted).score
         THEN <<cand>> \o sorted
         ELSE <<Head(sorted)>> \o InsertByScore(Tail(sorted), cand)

RECURSIVE SortByScore(_, _)
SortByScore(cands, sorted) ==
    IF cands = <<>> THEN sorted
    ELSE SortByScore(Tail(cands), InsertByScore(sorted, Head(cands)))

\* 1.0 / (score + 0.01) is 1000 / WeightDen(score) with the score in
\* thousandths
WeightDen(score) == score + 10

RECURSIVE LcmDens(_)
LcmDens(cands) ==
    IF cands = <<>> THEN 1
    ELSE Lcm(WeightDen(Head(cands).score), LcmDens(Tail(cands)))

\* the weights 1000 / WeightDen, all multiplied by l / 1000 (a common factor
\* of weighted_sum and total_weight), l the least common multiple of the
\* denominators: whole numbers
RECURSIVE Weights(_, _)
Weights(cands, l) ==
    IF cands = <<>> THEN <<>>
    ELSE <<l \div WeightDen(Head(cands).score)>> \o Weights(Tail(cands), l)

RECURSIVE WeightedOutputs(_, _)
WeightedOutputs(weights, cands) ==
    IF weights = <<>> THEN 0
    ELSE Head(weights) * Head(cands).case.output
         + WeightedOutputs(Tail(weights), Tail(cands))

predict_by_duration_pattern(dp, days, miles, receipts) ==
    IF days \notin DOMAIN dp THEN None
    ELSE LET same_day_cases == dp[days] IN
         IF \E i \in 1..Len(same_day_cases) : same_day_cases[i].miles = Null
         THEN Raised
         ELSE LET candidates ==
                      [i \in 1..Len(same_day_cases) |->
                          [score |-> Score(same_day_cases[i], miles, receipts),
                           case |-> same_day_cases[i]]]
                  sorted == SortByScore(candidates, <<>>)
                  top_candidates == SubSeq(sorted, 1, Min(TopK, Len(sorted)))
                  weights == Weights(top_candidates, LcmDens(top_candidates))
                  total_weight == SumInts(weights)
              IN  IF top_candidates # <<>> /\ total_weight > 0
                  THEN Some(Mean(WeightedOutputs(weights, top_candidates),
                                 total_weight))
                  ELSE None

\* for (low, high), bucket_cases in self.receipt_patterns.items(): the keys
\* in the order they were inserted, that of receipt_buckets
RECURSIVE ScanBuckets(_, _, _, _, _)
ScanBuckets(rp, i, days, miles, receipts) ==
    IF i > Len(receipt_buckets) THEN None
    ELSE LET b == receipt_buckets[i] IN
         IF b \notin DOMAIN rp \/ ~InBucket(b, receipts) \/ rp[b] = <<>>
         THEN ScanBuckets(rp, i + 1, days, miles, receipts)
         ELSE IF \E j \in 1..Len(rp[b]) :
                    /\ Abs(rp[b][j].days - days) <= BucketDayRange
                    /\ rp[b][j].miles = Null
              THEN Raised
              ELSE LET similar == SelectSeq(rp[b], LAMBDA case :
                           /\ Abs(case.days - days) <= BucketDayRange
                           /\ Abs(case.miles - miles) <= Units(BucketMileRange))
                   IN  IF similar # <<>>
                       THEN Some(Mean(Outputs(similar), Len(similar)))
                       ELSE ScanBuckets(rp, i + 1, days, miles, receipts)

predict_by_receipt_bucket(rp, days, miles, receipts) ==
    ScanBuckets(rp, 1, days, miles, receipts)

---------------------------------------------------------------------------
(* The two linear estimators, in thousandths of a cent (1e-5 dollars).     *)

\* the coefficients 50.0505, 0.4456, 0.3829 and 266.7077, in 1e-4 dollars
CoefDays == 500505
CoefMiles == 4456
CoefReceipts == 3829
Intercept == 2667077

\* a whole number of dollars; pct/100 dollars per unit of a quantity counted
\* in tenths
Dollars(x) == x * 100000
Rate(pct, tenths) == pct * tenths * 100

\* thousandths of a cent as a mixed number of cents
Cents(x) == Norm(0, x, 1000)

\* a faulty variant: the intercept left out
linear_regression_no_intercept(days, miles, receipts) ==
    10 * CoefDays * days + CoefMiles * miles + CoefReceipts * receipts

linear_regression_predict(days, miles, receipts) ==
    10 * CoefDays * days + CoefMiles * miles + CoefReceipts * receipts
    + 10 * Intercept

\* base += amount in the branch called name
Adjust(s, name, amount) ==
    [base |-> s.base + amount, fired |-> s.fired \cup {name}]

\* a faulty variant: the three rules chained with elif, the first that
\* applies shutting out the others
enhanced_linear_first_rule(days, miles, receipts) ==
    LET s0 == [base |-> linear_regression_predict(days, miles, receipts),
               fired |-> {}]
    IN  IF receipts > Units(1500)
        THEN IF days <= 3
             THEN Adjust(s0, "receipts_short",
                         -Rate(30, receipts - Units(1500)))
             ELSE Adjust(s0, "receipts_long",
                         -Rate(10, receipts - Units(1500)))
        ELSE IF 4 <= days /\ days <= 6
        THEN Adjust(s0, "days_sweet_spot", Dollars(days * 15))
        ELSE IF days >= 10
        THEN Adjust(s0, "days_very_long", Dollars((days - 9) * 20))
        ELSE IF miles > Units(1000)
        THEN IF days >= 7
             THEN Adjust(s0, "miles_long", Rate(10, miles - Units(1000)))
             ELSE Adjust(s0, "miles_short", -Rate(5, miles - Units(1000)))
        ELSE s0

\* the running total and the branches taken, one LET per if statement
enhanced_linear_steps(days, miles, receipts) ==
    LET s0 == [base |-> linear_regression_predict(days, miles, receipts),
               fired |-> {}]
        s1 == IF receipts > Units(1500)
              THEN IF days <= 3
                   THEN Adjust(s0, "receipts_short",
                               -Rate(30, receipts - Units(1500)))
                   ELSE Adjust(s0, "receipts_long",
                               -Rate(10, receipts - Units(1500)))
              ELSE s0
        s2 == IF 4 <= days /\ days <= 6
              THEN Adjust(s1, "days_sweet_spot", Dollars(days * 15))
              ELSE s1
        s3 == IF days >= 10
              THEN Adjust(s2, "days_very_long", Dollars((days - 9) * 20))
              ELSE s2
        s4 == IF miles > Units(1000)
              THEN IF days >= 7
                   THEN Adjust(s3, "miles_long", Rate(10, miles - Units(1000)))
                   ELSE Adjust(s3, "miles_short", -Rate(5, miles - Units(1000)))
              ELSE s3
    IN  s4

enhanced_linear_predict(days, miles, receipts) ==
    enhanced_linear_steps(days, miles, receipts).base

---------------------------------------------------------------------------
(* predict: the ensemble.  The weights 10.0, 5.0, 3.0, 2.0, 1.0 and 0.5    *)
(* are counted in halves; the factor cancels in weighted_sum/total_weight. *)

ExactWeight == 20
SimilarWeight == 10
DurationWeight == 6
BucketWeight == 4
EnhancedWeight == 2
BasicWeight == 1

\* if x is not None: predictions.append(x); weights.append(w)
Vote(x, w) == IF x.kind = "value" THEN <<[p |-> x.val, w |-> w]>> ELSE <<>>

RECURSIVE WeightedSum(_)
WeightedSum(vs) ==
    IF vs = <<>> THEN Whole(0)
    ELSE Add(Times(Head(vs).p, Head(vs).w), WeightedSum(Tail(vs)))

RECURSIVE TotalWeight(_)
TotalWeight(vs) == IF vs = <<>> THEN 0 ELSE Head(vs).w + TotalWeight(Tail(vs))

predict(td, dp, rp, days, miles, receipts) ==
    LET exact == find_exact_match(td, days, miles, receipts)
        similar == find_similar_cases(td, days, miles, receipts,
                                      EnsembleTolerance)
        duration_pred == predict_by_duration_pattern(dp, days, miles, receipts)
        bucket_pred == predict_by_receipt_bucket(rp, days, miles, receipts)
        enhanced_linear ==
            Some(Cents(enhanced_linear_predict(days, miles, receipts)))
        basic_linear ==
            Some(Cents(linear_regression_predict(days, miles, receipts)))
        vs == Vote(exact, ExactWeight) \o Vote(similar, SimilarWeight)
              \o Vote(duration_pred, DurationWeight)
              \o Vote(bucket_pred, BucketWeight)
              \o Vote(enhanced_linear, EnhancedWeight)
              \o Vote(basic_linear, BasicWeight)
    IN  IF "raised" \in {exact.kind, similar.kind, duration_pred.kind,
                         bucket_pred.kind}
        THEN [kind |-> "raised", val |-> Whole(0), votes |-> <<>>]
        ELSE [kind |-> "value",
              val |-> IF vs # <<>>
                      THEN DivInt(WeightedSum(vs), TotalWeight(vs))
                      ELSE basic_linear.val,
              votes |-> vs]

---------------------------------------------------------------------------
(* calculate_reimbursement                                                 *)

LowerBound == 50
UpperBound == 3000
UltimateFallback == 300

\* int(x) of a float: towards zero
IntOfTenths(t) == IF t >= 0 THEN t \div 10 ELSE -((-t) \div 10)

\* max(a, b) keeps a unless b is greater; min(a, b) unless b is smaller
PyMax(a, b) == IF Less(a, b) THEN b ELSE a
PyMin(a, b) == IF Less(b, a) THEN b ELSE a

\* round(x, 2): to a whole number of cents, a tie to the even one
Round2(v) ==
    IF 2 * v.n < v.d THEN Whole(v.w)
    ELSE IF 2 * v.n > v.d THEN Whole(v.w + 1)
    ELSE IF v.w % 2 = 0 THEN Whole(v.w) ELSE Whole(v.w + 1)

\* float(...), int(float(...)) and max(0, ...): ValueError for text
Coerce(raw_days, raw_miles, raw_receipts) ==
    IF raw_days.numeric /\ raw_miles.numeric /\ raw_receipts.numeric
    THEN [raised |-> FALSE,
          days |-> IF IntOfTenths(raw_days.tenths) > 0
                   THEN IntOfTenths(raw_days.tenths) ELSE 0,
          miles |-> IF raw_miles.tenths > 0 THEN raw_miles.tenths ELSE 0,
          receipts |-> IF raw_receipts.tenths > 0
                       THEN raw_receipts.tenths ELSE 0]
    ELSE [raised |-> TRUE, days |-> 0, miles |-> 0, receipts |-> 0]

\* a faulty variant: text read as zero in the except branch
FallbackCoerceLenient(raw_days, raw_miles, raw_receipts) ==
    LET zero == [numeric |-> TRUE, tenths |-> 0]
    IN  Coerce(IF raw_days.numeric THEN raw_days ELSE zero,
               IF raw_miles.numeric THEN raw_miles ELSE zero,
               IF raw_receipts.numeric THEN raw_receipts ELSE zero)

\* the conversions of the except branch (lines 239-241), the same ones
FallbackCoerce(raw_days, raw_miles, raw_receipts) ==
    Coerce(raw_days, raw_miles, raw_receipts)

\* prediction = max(prediction, 50.0); prediction = min(prediction, 3000.0)
Clamp(v) == PyMin(PyMax(v, Whole(LowerBound * 100)), Whole(UpperBound * 100))

\* the except branch: the basic formula rounded, else 300.0
Fallback(raw_days, raw_miles, raw_receipts) ==
    LET c == FallbackCoerce(raw_days, raw_miles, raw_receipts) IN
    IF c.raised
    THEN [stage |-> "constant", val |-> Whole(UltimateFallback * 100),
          votes |-> <<>>]
    ELSE [stage |-> "basic",
          val |-> Round2(Cents(linear_regression_predict(
                                   c.days, c.miles, c.receipts))),
          votes |-> <<>>]

calculate_reimbursement(td, dp, rp, raw_days, raw_miles, raw_receipts) ==
    LET c == Coerce(raw_days, raw_miles, raw_receipts) IN
    IF c.raised THEN Fallback(raw_days, raw_miles, raw_receipts)
    ELSE LET prediction == predict(td, dp, rp, c.days, c.miles, c.receipts) IN
         IF prediction.kind = "raised"
         THEN Fallback(raw_days, raw_miles, raw_receipts)
         ELSE [stage |-> "ensemble",
               val |-> Round2(Clamp(prediction.val)),
               votes |-> prediction.votes]

\* a faulty variant: self.day_patterns[days] itself sorted by score
day_patterns_sorted_in_place(dp, days, miles, receipts) ==
    IF days \in DOMAIN dp /\ \A i \in 1..Len(dp[days]) : dp[days][i].miles # Null
    THEN [dp EXCEPT ![days] =
            LET cands == [i \in 1..Len(dp[days]) |->
                            [score |-> Score(dp[days][i], miles, receipts),
                             case |-> dp[days][i]]]
                sorted == SortByScore(cands, <<>>)
            IN  [i \in 1..Len(sorted) |-> sorted[i].case]]
    ELSE dp

\* predict_by_duration_pattern sorts candidates, a list of its own, and only
\* reads self.day_patterns[days]
day_patterns_after_predict(dp, days, miles, receipts) == dp

---------------------------------------------------------------------------
(* The bounded inputs: dataset files and raw argument triples.             *)

Case(d, m, r, o) == [days |-> d, miles |-> m, receipts |-> r, output |-> o]

\* records a dataset file is cut from: a cluster of 3-day trips around
\* 100 miles and 50 in receipts, neighbours one to four days away, receipts
\* at the top edge of the bucket table, a null and a missing field
Records ==
    << Case(2, 1000, 499, 20000),
       Case(1, 2010, 500, 35000),
       Case(3, 1000, 500, 40000),
       Case(3, 1000, 500, 0),
       Case(3, 1010, 500, 50000),
       Case(3, 1030, 500, 1000),
       Case(3, 1040, 500, 30000),
       Case(3, 960, 500, 60000),
       Case(3, 1090, 500, 20000),
       Case(4, 1000, 500, 40000),
       Case(4, 1000, 700, 30000),
       Case(4, 1000, 710, 100000),
       Case(5, 2000, 500, 25000),
       Case(6, 1000, 500, 45000),
       Case(7, 1000, 29990, 90000),
       Case(7, 1000, 30000, 80000),
       Case(10, Null, 500, 10000),
       Case(3, 1000, 500, Absent) >>

\* the greatest number of records in a dataset file
MaxCases == 6

Files ==
    {[state |-> st, cases |-> <<>>] :
        st \in {"absent", "unreadable", "malformed", "ok"}}
    \cup {[state |-> "ok", cases |-> SubSeq(Records, w[1], w[2])] :
            w \in {v \in (1..Len(Records)) \X (1..Len(Records)) :
                      v[1] <= v[2] /\ v[2] - v[1] < MaxCases}}

Num(t) == [numeric |-> TRUE, tenths |-> t]
Text == [numeric |-> FALSE, tenths |-> 0]

RawRequests ==
    { <<Num(30), Num(1000), Num(500)>>,
      <<Num(39), Num(1010), Num(500)>>,
      <<Num(30), Num(1000), Num(510)>>,
      <<Num(30), Num(1000), Num(520)>>,
      <<Num(40), Num(1004), Num(503)>>,
      <<Num(40), Num(1000), Num(500)>>,
      <<Num(50), Num(3000), Num(2000)>>,
      <<Num(-27), Num(-10), Num(30)>>,
      <<Num(20), Num(11000), Num(16000)>>,
      <<Num(100), Num(11000), Num(16000)>>,
      <<Num(80), Num(11000), Num(0)>>,
      <<Num(50), Num(1000), Num(29999)>>,
      <<Num(50), Num(1000), Num(30000)>>,
      <<Num(100), Num(30000), Num(32000)>>,
      <<Text, Num(1000), Num(500)>>,
      <<Num(30), Text, Num(500)>>,
      <<Num(30), Num(1000), Text>> }

---------------------------------------------------------------------------
(* The state machine.                                                      *)

NoCall == [stage |-> "none", val |-> Whole(0)]

Init ==
    /\ file \in Files
    /\ phase = "start"
    /\ training_data = <<>>
    /\ day_patterns = <<>>
    /\ receipt_patterns = <<>>
    /\ args = <<>>
    /\ ret = NoCall
    /\ votes = <<>>
    /\ first = [state |-> "off", args |-> <<>>, ret |-> NoCall,
                separated |-> FALSE]

\* calculator = HybridReimbursementCalculator(): an exception that
\* load_training_data lets through ends the import of the module
Construct ==
    /\ phase = "start"
    /\ LET loaded == load_training_data(file) IN
       /\ training_data' = loaded.data
       /\ IF loaded.raised
          THEN /\ phase' = "crashed"
               /\ day_patterns' = <<>>
               /\ receipt_patterns' = <<>>
          ELSE /\ phase' = "ready"
               /\ day_patterns' = build_day_patterns(loaded.data)
               /\ receipt_patterns' = build_receipt_patterns(loaded.data)
    /\ UNCHANGED <<file, args, ret, votes, first>>

Calculate ==
    /\ phase = "ready"
    /\ \E raw \in RawRequests :
          LET out == calculate_reimbursement(training_data, day_patterns,
                         receipt_patterns, raw[1], raw[2], raw[3])
              c == Coerce(raw[1], raw[2], raw[3])
              r == [stage |-> out.stage, val |-> out.val]
          IN  /\ args' = raw
              /\ ret' = r
              /\ votes' = out.votes
              /\ first' = CASE first.state = "waiting" ->
                               [state |-> "noted", args |-> raw, ret |-> r,
                                separated |-> FALSE]
                            [] first.state = "noted" /\ raw # first.args ->
                               [first EXCEPT !.separated = TRUE]
                            [] OTHER -> first
              /\ day_patterns' =
                    IF c.raised THEN day_patterns
                    ELSE day_patterns_after_predict(day_patterns, c.days,
                                                    c.miles, c.receipts)
    /\ UNCHANGED <<file, phase, training_data, receipt_patterns>>

Next == Construct \/ Calculate

Spec == Init /\ [][Next]_vars

\* the same machine over the fullest dataset files, the first call noted
InitNoted ==
    /\ file \in {f \in Files : Len(f.cases) = MaxCases}
    /\ phase = "start"
    /\ training_data = <<>>
    /\ day_patterns = <<>>
    /\ receipt_patterns = <<>>
    /\ args = <<>>
    /\ ret = NoCall
    /\ votes = <<>>
    /\ first = [state |-> "waiting", args |-> <<>>, ret |-> NoCall,
                separated |-> FALSE]

SpecNoted == InitNoted /\ [][Next]_vars

---------------------------------------------------------------------------
(* The claims.  Amounts are stated in cents: 50.00 is 5000, 3000.00 is     *)
(* 300000 and 300.0 is 30000.                                              *)

Called == phase = "ready" /\ args # <<>>

\* the request of the last call as coerced (read only when Called)
Req == Coerce(args[1], args[2], args[3])

AllNumeric == \A i \in 1..3 : args[i].numeric

\* every miles field of the store is a number, as the data model has it
NumericStore == \A i \in 1..Len(training_data) : training_data[i].miles # Null

WholeCentsInBounds(v) == v.n = 0 /\ 5000 <= v.w /\ v.w <= 300000

\* C1: for every store and every request whose three inputs coerce to
\* non-negative numbers, the value returned is a whole number of cents
\* between 50.00 and 3000.00.
C1_BoundedRounded ==
    (Called /\ AllNumeric) => WholeCentsInBounds(ret.val)

\* C2: for every raw input triple and every store a value is returned, and
\* whatever stage of the fallback chain returns it, it is within
\* [50.00, 3000.00] or exactly 300.0; in particular the value of the
\* BasicLinear fallback stage is within those bounds.
C2_FallbackBounded ==
    Called =>
        /\ ret.stage \in {"ensemble", "basic", "constant"}
        /\ WholeCentsInBounds(ret.val) \/ ret.val = Whole(30000)
        /\ ret.stage = "basic" => WholeCentsInBounds(ret.val)

\* a source that is absent or unreadable: no file, a file that cannot be
\* read, content that is not JSON, a record lacking a required field
BadSource ==
    \/ file.state \in {"absent", "unreadable", "malformed"}
    \/ \E i \in 1..Len(file.cases) :
          Absent \in {file.cases[i].days, file.cases[i].miles,
                      file.cases[i].receipts, file.cases[i].output}

\* C3: if the training data source is absent or unreadable, initialization
\* completes without error, the store and both indices are empty, and a
\* prediction is produced from EnhancedLinear and BasicLinear only.
C3_BadSourceTolerated ==
    (BadSource /\ phase # "start") =>
        /\ phase = "ready"
        /\ training_data = <<>>
        /\ DOMAIN day_patterns = {}
        /\ DOMAIN receipt_patterns = {}
        /\ (Called /\ AllNumeric) =>
              /\ ret.stage = "ensemble"
              /\ Len(votes) = 2

\* 50.0505*days + 0.4456*miles + 0.3829*receipts + 266.7077 in 1e-5
\* dollars, miles and receipts in tenths
BasicFormula(days, miles, receipts) ==
    5005050 * days + 4456 * miles + 3829 * receipts + 26670770

\* (EL*1.0 + BL*0.5)/1.5 counted in 1/3000 of a cent, clamped to
\* [50, 3000]
EmptyStoreBlend(days, miles, receipts) ==
    LET t == 2 * enhanced_linear_predict(days, miles, receipts)
             + BasicFormula(days, miles, receipts)
    IN  IF t < 15000000 THEN 15000000
        ELSE IF t > 900000000 THEN 900000000 ELSE t

\* c is x (in 1/3000 of a cent) rounded to a whole number of cents
IsRounded(c, x) ==
    /\ 2 * Abs(3000 * c - x) <= 3000
    /\ 2 * Abs(3000 * c - x) = 3000 => c % 2 = 0

\* C4: with an empty store, for every non-negative request the output is
\* round2(clamp((EL*1.0 + BL*0.5)/1.5)), only EnhancedLinear (weight 1.0)
\* and BasicLinear (weight 0.5) vote, and for days=5, miles=300,
\* receipts=200 the output is 777.22.
C4_EmptyStoreBlend ==
    (Called /\ AllNumeric /\ training_data = <<>>) =>
        /\ ret.val.n = 0
        /\ IsRounded(ret.val.w,
                     EmptyStoreBlend(Req.days, Req.miles, Req.receipts))
        /\ Len(votes) = 2
        /\ votes[1].p = Cents(enhanced_linear_predict(Req.days, Req.miles,
                                                      Req.receipts))
        /\ votes[2].p = Cents(BasicFormula(Req.days, Req.miles, Req.receipts))
        /\ votes[1].w = 2 * votes[2].w
        /\ args = <<Num(50), Num(3000), Num(2000)>> => ret.val = Whole(77722)

C4_Witness ==
    /\ Called
    /\ training_data = <<>>
    /\ args = <<Num(50), Num(3000), Num(2000)>>
    /\ ret = [stage |-> "ensemble", val |-> Whole(77722)]

\* C10: whenever one of the three raw inputs does not coerce, the call
\* returns exactly 300.0; the BasicLinear stage's value is returned only
\* when all three inputs coerce and the ensemble prediction itself faults.
C10_CoercionFailureIsConstant ==
    Called =>
        /\ ~AllNumeric => ret = [stage |-> "constant", val |-> Whole(30000)]
        /\ ret.stage = "basic" =>
              /\ AllNumeric
              /\ predict(training_data, day_patterns, receipt_patterns,
                         Req.days, Req.miles, Req.receipts).kind = "raised"
        /\ ret.stage = "constant" => ~AllNumeric

C10_Witness ==
    /\ Called
    /\ ~args[2].numeric
    /\ training_data # <<>>
    /\ ret = [stage |-> "constant", val |-> Whole(30000)]

\* C5: after initialization no call changes the training store or either
\* index, and a call repeating the arguments of the first call, whatever
\* calls came between, returns what the first call returned.
C5_StoreFrameAndRepeat ==
    [][/\ phase = "ready" => store' = store
       /\ (first'.state = "noted" /\ args' = first'.args) =>
             ret' = first'.ret]_vars

C5_Witness ==
    /\ Called
    /\ first.state = "noted"
    /\ first.separated
    /\ args = first.args
    /\ ret = first.ret
    /\ ret.stage = "ensemble"
    /\ Len(votes) = 6

RECURSIVE SumOutputsAt(_)
SumOutputsAt(S) ==
    IF S = {} THEN 0
    ELSE LET i == CHOOSE x \in S : TRUE
         IN  training_data[i].output + SumOutputsAt(S \ {i})

\* v is the unweighted mean of the outputs of the cases at the indices S
IsMeanOf(v, S) ==
    Cardinality(S) * (v.w * v.d + v.n) = v.d * SumOutputsAt(S)

\* the ten half-open receipt ranges of the data model, in whole units
TenRanges ==
    { <<0, 50>>, <<50, 100>>, <<100, 200>>, <<200, 300>>, <<300, 500>>,
      <<500, 800>>, <<800, 1200>>, <<1200, 1600>>, <<1600, 2000>>,
      <<2000, 3000>> }

SameRange(x, y) ==
    \E b \in TenRanges :
        /\ 10 * b[1] <= x /\ x < 10 * b[2]
        /\ 10 * b[1] <= y /\ y < 10 * b[2]

\* the cases in the request's receipt range within 2 days and 100 miles
BucketPeers ==
    {i \in 1..Len(training_data) :
        /\ SameRange(training_data[i].receipts, Req.receipts)
        /\ Abs(training_data[i].days - Req.days) <= 2
        /\ Abs(training_data[i].miles - Req.miles) <= 1000}

VotesWeighing(w) == {i \in 1..Len(votes) : votes[i].w = w}

\* C6: ReceiptBucketAverage returns a result if and only if the store
\* holds a case in the same one of the ten ranges as the request's receipts
\* with |ddays| <= 2 and |dmiles| <= 100; the result is the unweighted mean
\* of the outputs of all such cases and is the vote of weight 2.0; for
\* receipts >= 3000 it contributes no vote.
C6_ReceiptBucketAverage ==
    (Called /\ AllNumeric /\ NumericStore) =>
        LET r == predict_by_receipt_bucket(receipt_patterns, Req.days,
                                           Req.miles, Req.receipts)
        IN  /\ BucketPeers = {} => r = None /\ VotesWeighing(4) = {}
            /\ BucketPeers # {} =>
                  /\ r.kind = "value"
                  /\ IsMeanOf(r.val, BucketPeers)
                  /\ \E i \in 1..Len(votes) :
                        /\ VotesWeighing(4) = {i}
                        /\ votes[i].p = r.val
            /\ Req.receipts >= 30000 => r = None /\ VotesWeighing(4) = {}

\* a vote averaged over two or more cases while a case of the same range
\* lies outside the day or mile window
C6_Witness ==
    /\ Called /\ AllNumeric /\ NumericStore
    /\ Cardinality(BucketPeers) >= 2
    /\ VotesWeighing(4) # {}
    /\ \E i \in 1..Len(training_data) :
          /\ i \notin BucketPeers
          /\ SameRange(training_data[i].receipts, Req.receipts)

ExactMatches ==
    {i \in 1..Len(training_data) :
        /\ training_data[i].days = Req.days
        /\ Abs(training_data[i].miles - Req.miles) <= 10
        /\ Abs(training_data[i].receipts - Req.receipts) <= 10}

FirstOf(S) == CHOOSE i \in S : \A j \in S : i <= j

\* C7: ExactMatch returns the output of the first case in load order with
\* the request's days and with miles and receipts each within 1 of the
\* request's, and "no result" if and only if there is none; a result
\* enters the blend with weight 10.0 (ten times EnhancedLinear's 1.0).
C7_ExactMatchFirst ==
    (Called /\ AllNumeric /\ NumericStore) =>
        LET e == find_exact_match(training_data, Req.days, Req.miles,
                                  Req.receipts)
            \* EnhancedLinear's vote, of weight 1.0, is the last but one
            one == votes[Len(votes) - 1].w
        IN  /\ ExactMatches = {} =>
                  /\ e = None
                  /\ VotesWeighing(10 * one) = {}
            /\ ExactMatches # {} =>
                  /\ e = Some(Whole(training_data[FirstOf(ExactMatches)].output))
                  /\ votes[1] = [p |-> e.val, w |-> 10 * one]
                  /\ VotesWeighing(10 * one) = {1}

\* two cases match and the later one has another output
C7_Witness ==
    /\ Called /\ AllNumeric /\ NumericStore
    /\ \E i, j \in ExactMatches :
          /\ i < j
          /\ training_data[i].output # training_data[j].output
          /\ votes[1].p = Whole(training_data[i].output)
    /\ votes[1].w = 20

\* the adjustment each branch makes, in 1e-5 dollars, from the rule table
RuleAmount(name, days, miles, receipts) ==
    CASE name = "receipts_short"  -> -3000 * (receipts - 15000)
      [] name = "receipts_long"   -> -1000 * (receipts - 15000)
      [] name = "days_sweet_spot" -> 1500000 * days
      [] name = "days_very_long"  -> 2000000 * (days - 9)
      [] name = "miles_long"      -> 1000 * (miles - 10000)
      [] name = "miles_short"     -> -500 * (miles - 10000)

\* the branches whose condition the original inputs meet
RuleApplies(name, days, miles, receipts) ==
    CASE name = "receipts_short"  -> receipts > 15000 /\ days <= 3
      [] name = "receipts_long"   -> receipts > 15000 /\ days > 3
      [] name = "days_sweet_spot" -> 4 <= days /\ days <= 6
      [] name = "days_very_long"  -> days >= 10
      [] name = "miles_long"      -> miles > 10000 /\ days >= 7
      [] name = "miles_short"     -> miles > 10000 /\ days < 7

RuleFamilies ==
    { {"receipts_short", "receipts_long"},
      {"days_sweet_spot", "days_very_long"},
      {"miles_long", "miles_short"} }

RECURSIVE SumAmounts(_, _, _, _)
SumAmounts(names, days, miles, receipts) ==
    IF names = {} THEN 0
    ELSE LET n == CHOOSE x \in names : TRUE
         IN  RuleAmount(n, days, miles, receipts)
             + SumAmounts(names \ {n}, days, miles, receipts)

\* the branches taken are those whose condition holds of the original
\* inputs, and their adjustments add up on top of BasicLinear
Cumulative ==
    LET s == enhanced_linear_steps(Req.days, Req.miles, Req.receipts)
    IN  /\ s.fired = {n \in UNION RuleFamilies :
                         RuleApplies(n, Req.days, Req.miles, Req.receipts)}
        /\ s.base = BasicFormula(Req.days, Req.miles, Req.receipts)
                    + SumAmounts(s.fired, Req.days, Req.miles, Req.receipts)

BranchesFired(family) ==
    Cardinality(enhanced_linear_steps(Req.days, Req.miles,
                                      Req.receipts).fired \cap family)

\* C8 as stated: in EnhancedLinear all applicable adjustments apply
\* cumulatively on top of BasicLinear, and within each of the three rule
\* families exactly one branch fires.
C8_ExactlyOneBranch ==
    (Called /\ AllNumeric) =>
        /\ Cumulative
        /\ \A family \in RuleFamilies : BranchesFired(family) = 1

\* C8 as amended: in EnhancedLinear all applicable adjustments apply
\* cumulatively on top of BasicLinear, and within each of the three rule
\* families at most one branch fires (none when no condition of the
\* family holds).
C8_AtMostOneBranch ==
    (Called /\ AllNumeric) =>
        /\ Cumulative
        /\ \A family \in RuleFamilies : BranchesFired(family) <= 1

\* a request for which a branch of every family fires
C8_Witness ==
    /\ Called /\ AllNumeric
    /\ \A family \in RuleFamilies : BranchesFired(family) = 1
    /\ ret.stage = "ensemble"

\* the cases of the request's day-count, and their order by score, equal
\* scores by load order
SameDay == {i \in 1..Len(training_data) : training_data[i].days = Req.days}

Distance(i) ==
    Abs(training_data[i].miles - Req.miles)
    + Abs(training_data[i].receipts - Req.receipts)

Before(i, j) ==
    Distance(i) < Distance(j) \/ (Distance(i) = Distance(j) /\ i < j)

Nearest == {i \in SameDay : Cardinality({j \in SameDay : Before(j, i)}) < 5}

\* 1/(score + 0.01) with score = |dmiles|/100 + |dreceipts|/100 is
\* 1000/(Distance + 10), distances being counted in tenths; the common
\* multiple l of the denominators clears them
RECURSIVE CommonMultiple(_)
CommonMultiple(S) ==
    IF S = {} THEN 1
    ELSE LET i == CHOOSE x \in S : TRUE
         IN  Lcm(Distance(i) + 10, CommonMultiple(S \ {i}))

RECURSIVE SumWeights(_, _, _)
SumWeights(S, l, withOutput) ==
    IF S = {} THEN 0
    ELSE LET i == CHOOSE x \in S : TRUE
         IN  (l \div (Distance(i) + 10))
               * (IF withOutput THEN training_data[i].output ELSE 1)
             + SumWeights(S \ {i}, l, withOutput)

\* v * (sum of the weights) = sum of weight * output, over the cases S
IsWeightedMeanOf(v, S) ==
    LET l == CommonMultiple(S)
        total == SumWeights(S, l, FALSE)
        weighted == SumWeights(S, l, TRUE)
    IN  /\ v.w = weighted \div total
        /\ v.n * total = v.d * (weighted % total)

\* C9: DurationPatternKNN returns "no result" only when the store has no
\* case with the request's exact day-count; otherwise it returns the
\* inverse-distance weighted mean (weight 1/(score + 0.01)) of the
\* min(5, n) lowest-scoring same-day cases, equal scores in load order.
C9_DurationPatternKNN ==
    (Called /\ AllNumeric /\ NumericStore) =>
        LET k == predict_by_duration_pattern(day_patterns, Req.days,
                                             Req.miles, Req.receipts)
        IN  /\ SameDay = {} => k = None /\ VotesWeighing(6) = {}
            /\ SameDay # {} =>
                  /\ k.kind = "value"
                  /\ Cardinality(Nearest) = Min(5, Cardinality(SameDay))
                  /\ IsWeightedMeanOf(k.val, Nearest)
                  /\ \E i \in 1..Len(votes) :
                        /\ VotesWeighing(6) = {i}
                        /\ votes[i].p = k.val

\* six or more same-day cases, two of equal score either side of the cut
\* and of different outputs
C9_Witness ==
    /\ Called /\ AllNumeric /\ NumericStore
    /\ Cardinality(SameDay) > 5
    /\ \E i \in Nearest, j \in SameDay \ Nearest :
          /\ Distance(i) = Distance(j)
          /\ training_data[i].output # training_data[j].output
    /\ VotesWeighing(6) # {}

===========================================================================
